---- MODULE Spec2Model ----
(***************************************************************************)
(* Model of the agenda server (src/server.js): four JSON files under the   *)
(* data folder (settings.json, credentials.json, token.json,               *)
(* pacientes.json) and the Express handlers that read and write them.      *)
(*                                                                         *)
(* A file is a record [kind, json]: kind is "absent" (no file), "blank"    *)
(* (empty or whitespace-only text), "garbage" (text JSON.parse rejects) or *)
(* "json" (text JSON.parse accepts, json being the parsed value).          *)
(* A JavaScript value is a record [t, n, s] so that values of different    *)
(* JavaScript types stay comparable; t = "undef" stands for undefined,     *)
(* which is also what reading a key an object does not have yields.        *)
(***************************************************************************)
EXTENDS Integers, FiniteSets, Sequences, TLC

\* ---------------------------------------------------------------- bounds
\* diasEscopo takes the values -1..MaxDias in files and request bodies
\* (POST /api/settings stores whatever number the body gives).
MaxDias == 2
\* The provider issues the token bundles 1..NTokens.
NTokens == 2
\* At most MaxAgenda GET /api/agenda requests await the provider at once.
MaxAgenda == 2
\* new Date() yields one of the instants 1..MaxClock; the instant i falls on
\* the calendar day i.
MaxClock == 2

\* ------------------------------------------------------ JavaScript values
Undef == [t |-> "undef", n |-> 0, s |-> ""]
Null == [t |-> "null", n |-> 0, s |-> ""]
Num(i) == [t |-> "num", n |-> i, s |-> ""]
Str(x) == [t |-> "str", n |-> 0, s |-> x]
Bool(b) == [t |-> "bool", n |-> IF b THEN 1 ELSE 0, s |-> ""]

\* JavaScript's truthiness (the condition of ?:, the left side of ||).
truthy(v) ==
    CASE v.t \in {"undef", "null"} -> FALSE
      [] v.t = "bool" -> v.n = 1
      [] v.t = "num" -> v.n # 0
      [] v.t = "str" -> v.s # ""
      [] OTHER -> TRUE

\* ------------------------------------------------------------------ files
\* fs.existsSync(path)
existsSync(f) == f.kind # "absent"

\* fs.readFileSync(path) followed by JSON.parse throws on blank or malformed
\* text; content.trim() is empty exactly for the blank kind.
parseThrows(f) == f.kind \in {"blank", "garbage"}

\* ------------------------------------------------------------- settings
SettingsKeys == {"diasEscopo", "senhaAdmin", "ocultarIgnorados"}

\* The values a JSON text or a request body gives each key (Undef: the key
\* is not there).
KeyValues(k) ==
    CASE k = "diasEscopo" -> {Undef} \cup {Num(i) : i \in (-1)..MaxDias}
      [] k = "senhaAdmin" -> {Undef, Str("admin"), Str("s3")}
      [] OTHER -> {Undef, Bool(TRUE), Bool(FALSE)}

SettingsObjects == {o \in [SettingsKeys -> UNION {KeyValues(k) : k \in SettingsKeys}] :
                        \A k \in SettingsKeys : o[k] \in KeyValues(k)}

NoKeys == [k \in SettingsKeys |-> Undef]

\* A parsed JSON text: an object, or the JSON literal null (obj is then
\* NoKeys, a placeholder).
JsonNull == [isObject |-> FALSE, obj |-> NoKeys]
JsonObject(o) == [isObject |-> TRUE, obj |-> o]

SettingsJson == {JsonNull} \cup {JsonObject(o) : o \in SettingsObjects}

AbsentFile(j) == [kind |-> "absent", json |-> j]
BlankFile(j) == [kind |-> "blank", json |-> j]
GarbageFile(j) == [kind |-> "garbage", json |-> j]

\* JSON.stringify(value, null, 2): a text that parses back to the value; keys
\* whose value is undefined are dropped, which is what Undef already stands for.
JSONstringify(j) == [kind |-> "json", json |-> j]

SettingsContents ==
    {AbsentFile(JsonNull), BlankFile(JsonNull), GarbageFile(JsonNull)}
        \cup {JSONstringify(j) : j \in SettingsJson}

defaultSettings ==
    [k \in SettingsKeys |->
        CASE k = "diasEscopo" -> Num(1)
          [] k = "senhaAdmin" -> Str("admin")
          [] OTHER -> Bool(TRUE)]

\* getSettings falls into its catch block: the file is missing, its content is
\* blank, or JSON.parse throws.
getSettingsCatch(f) == ~existsSync(f) \/ parseThrows(f)

\* What getSettings does when it falls into the catch block: it writes the
\* default object and returns it.
HealPartial(f) ==
    [ret |-> JsonObject(defaultSettings), file |-> f, threw |-> FALSE]
recreateDefault(f) ==
    [ret |-> JsonObject(defaultSettings),
     file |-> JSONstringify(JsonObject(defaultSettings)),
     threw |-> FALSE]

\* getSettings(): the value returned, the settings file afterwards, and
\* whether an exception reaches the caller.
getSettings(f) ==
    IF getSettingsCatch(f)
        THEN recreateDefault(f)
        ELSE [ret |-> f.json, file |-> f, threw |-> FALSE]

\* { ...current, ...newSettings }: spreading null or an object copies its own
\* keys; a key of newSettings wins.
SpreadOverwrite(current, newSettings) == JsonObject(newSettings.obj)
spread(current, newSettings) ==
    JsonObject([k \in SettingsKeys |->
        IF newSettings.obj[k] # Undef THEN newSettings.obj[k] ELSE current.obj[k]])

\* saveSettings(newSettings): the settings file afterwards.
saveSettings(f, newSettings) ==
    JSONstringify(spread(getSettings(f).ret, newSettings))

\* ---------------------------------------------------- credentials, token
\* credentials.json parses to an object with a "web" key, with an "installed"
\* key, or with neither.
CredJson == {"web", "installed", "neither"}
CredContents ==
    {AbsentFile("neither"), BlankFile("neither"), GarbageFile("neither")}
        \cup {JSONstringify(j) : j \in CredJson}

Tokens == 1..NTokens
NoToken == 0

\* getOAuthClient(): a client, or the error thrown. keys.web || keys.installed
\* is undefined when the object has neither key, and key.client_id then throws
\* a TypeError.
getOAuthClient(cred) ==
    IF ~existsSync(cred) THEN [ok |-> FALSE, err |-> "CREDENTIALS_MISSING"]
    ELSE IF parseThrows(cred) THEN [ok |-> FALSE, err |-> "SyntaxError"]
    ELSE IF cred.json = "neither" THEN [ok |-> FALSE, err |-> "TypeError"]
    ELSE [ok |-> TRUE, err |-> ""]

\* carregarAuth(): a client with the stored token attached, or the error
\* AUTH_REQUIRED. The try block covers getOAuthClient() as well as the
\* parsing of token.json, and its catch block only logs.
AuthRequired == [ok |-> FALSE, token |-> NoToken, err |-> "AUTH_REQUIRED"]
CarregarAuthNoExistsCheck(cred, tok) ==
    IF getOAuthClient(cred).ok /\ ~parseThrows(tok)
        THEN [ok |-> TRUE, token |-> tok.json, err |-> ""]
        ELSE AuthRequired
carregarAuth(cred, tok) ==
    IF existsSync(tok) /\ getOAuthClient(cred).ok /\ ~parseThrows(tok)
        THEN [ok |-> TRUE, token |-> tok.json, err |-> ""]
        ELSE AuthRequired

\* fs.existsSync(TOKEN_PATH) && fs.unlinkSync(TOKEN_PATH)
unlinkToken(tok) == AbsentFile(NoToken)

\* ------------------------------------------------------------- patients
Names == {"Maria", "Ana"}

\* new Date() at the instant i, and the ISO string JSON.stringify writes for
\* it (a Date has a toJSON method; every other value is written as it is).
DateValue(i) == [t |-> "date", n |-> i, s |-> ""]
IsoString(i) == [t |-> "str", n |-> i, s |-> "iso"]
toJSON(v) == IF v.t = "date" THEN IsoString(v.n) ELSE v

\* What pacientes.json holds under a name: nothing, a value that is not an
\* object (a bare string written by an older version, or null), or a record.
NoEntry == [shape |-> "none", telefone |-> Undef, informadoEm |-> Undef]
OtherEntry == [shape |-> "other", telefone |-> Undef, informadoEm |-> Undef]
ObjectEntry(tel, inf) == [shape |-> "object", telefone |-> tel, informadoEm |-> inf]

NoNames == [n \in Names |-> NoEntry]
DbNull == [isObject |-> FALSE, obj |-> NoNames]
DbObject(o) == [isObject |-> TRUE, obj |-> o]

\* phoneUtil.parseAndKeepRawInput(raw, 'BR') and phoneUtil.isValidNumber, of
\* google-libphonenumber, on the raw inputs of the model: whether parsing
\* throws, whether the parsed number is valid, and its country code and
\* national number.
RawNumbers ==
    {"11999998888", "+55 11 99999-8888", "(21) 98888-7777", "123", "abc", ""}
phoneUtil(raw) ==
    CASE raw \in {"11999998888", "+55 11 99999-8888"} ->
            [throws |-> FALSE, valid |-> TRUE, cc |-> "55", national |-> "11999998888"]
      [] raw = "(21) 98888-7777" ->
            [throws |-> FALSE, valid |-> TRUE, cc |-> "55", national |-> "21988887777"]
      [] raw = "123" ->
            [throws |-> FALSE, valid |-> FALSE, cc |-> "55", national |-> "123"]
      [] OTHER ->
            [throws |-> TRUE, valid |-> FALSE, cc |-> "", national |-> ""]

\* phoneUtil.format(parsed, PNF.E164): a plus sign, the country code and the
\* national number; .replace('+', '') drops the plus sign.
formatE164(parsed) == [plus |-> "+", digits |-> parsed.cc \o parsed.national]
replacePlus(e164) == e164.digits

\* prepararNumero(numeroBruto): the digit string, or null.
prepararNumero(numeroBruto) ==
    IF phoneUtil(numeroBruto).throws THEN Null
    ELSE IF ~phoneUtil(numeroBruto).valid THEN Null
    ELSE Str(replacePlus(formatE164(phoneUtil(numeroBruto))))

\* The body of POST /api/salvar after the number is accepted: the file
\* afterwards and the status. JSON.parse of an unreadable file throws, and so
\* does db[nome] when the file holds null: both end in the catch block (500).
SalvarReplaceEntry(db, nome, numeroLimpo) ==
    IF existsSync(db) /\ (parseThrows(db) \/ ~db.json.isObject)
        THEN [file |-> db, status |-> 500]
        ELSE [file |-> JSONstringify(DbObject(
                        [(IF existsSync(db) THEN db.json.obj ELSE NoNames)
                            EXCEPT ![nome] = ObjectEntry(numeroLimpo, Undef)])),
              status |-> 200]
salvarEntry(db, nome, numeroLimpo) ==
    IF existsSync(db) /\ (parseThrows(db) \/ ~db.json.isObject)
        THEN [file |-> db, status |-> 500]
        ELSE LET old == IF existsSync(db) THEN db.json.obj ELSE NoNames
                 entry == IF old[nome].shape # "object"
                            THEN ObjectEntry(Undef, Undef)
                            ELSE old[nome]
             IN [file |-> JSONstringify(DbObject(
                        [old EXCEPT ![nome] = [entry EXCEPT !.telefone = numeroLimpo]])),
                 status |-> 200]

\* POST /api/salvar
SalvarWriteAnyway(db, nome, telefone) == salvarEntry(db, nome, prepararNumero(telefone))
salvar(db, nome, telefone) ==
    IF prepararNumero(telefone) = Null
        THEN [file |-> db, status |-> 400]
        ELSE salvarEntry(db, nome, prepararNumero(telefone))

\* POST /api/marcar-informado at the instant now: the file afterwards and the
\* status. An unreadable file, or one that holds null, ends in the catch
\* block (500) as in salvar.
MarcarReplaceEntry(db, nome, informado, now) ==
    IF existsSync(db) /\ (parseThrows(db) \/ ~db.json.isObject)
        THEN [file |-> db, status |-> 500]
        ELSE [file |-> JSONstringify(DbObject(
                        [(IF existsSync(db) THEN db.json.obj ELSE NoNames)
                            EXCEPT ![nome] = ObjectEntry(Undef,
                                toJSON(IF truthy(informado) THEN DateValue(now) ELSE Null))])),
              status |-> 200]
marcarInformado(db, nome, informado, now) ==
    IF existsSync(db) /\ (parseThrows(db) \/ ~db.json.isObject)
        THEN [file |-> db, status |-> 500]
        ELSE LET old == IF existsSync(db) THEN db.json.obj ELSE NoNames
                 entry == IF old[nome].shape # "object"
                            THEN ObjectEntry(Undef, Undef)
                            ELSE old[nome]
                 informadoEm == IF truthy(informado) THEN DateValue(now) ELSE Null
             IN [file |-> JSONstringify(DbObject(
                        [old EXCEPT ![nome] =
                            [entry EXCEPT !.informadoEm = toJSON(informadoEm)]])),
                 status |-> 200]

\* GET /api/pacientes: the mapping sent, and whether JSON.parse threw out of
\* the handler (it has no try block).
pacientes(db) ==
    IF ~existsSync(db) THEN [body |-> DbObject(NoNames), threw |-> FALSE]
    ELSE IF parseThrows(db) THEN [body |-> DbNull, threw |-> TRUE]
    ELSE [body |-> db.json, threw |-> FALSE]

\* ---------------------------------------------------------------- agenda
\* Instants are counted in milliseconds of local time from the midnight that
\* starts day 0; MsPerDay is a calendar day and EndOfDay is 23:59:59.999.
MsPerDay == 24 * 60 * 60 * 1000
EndOfDay == ((23 * 60 + 59) * 60 + 59) * 1000 + 999

\* settings.diasEscopo || 1
diasParaVer(settings) ==
    IF truthy(settings.obj["diasEscopo"]) THEN settings.obj["diasEscopo"].n ELSE 1

\* The window listarEventos asks the provider for when it runs on the day
\* today: inicio is tomorrow at 0:00:00.000 (setDate(getDate() + 1),
\* setHours(0, 0, 0, 0)); fim is the day of inicio plus diasParaVer - 1, at
\* 23:59:59.999.
NoWindow == [today |-> 0, inicio |-> 0, fim |-> 0]
listarEventosWindow(today, settings) ==
    [today |-> today,
     inicio |-> (today + 1) * MsPerDay,
     fim |-> ((today + 1) + (diasParaVer(settings) - 1)) * MsPerDay + EndOfDay]

\* The catch block of GET /api/agenda on an error with message e: the token
\* file afterwards and the status sent.
AgendaCatchKeepsToken(e, tok) ==
    IF e \in {"AUTH_REQUIRED", "invalid_grant"}
        THEN [token |-> tok, status |-> 401]
        ELSE [token |-> tok, status |-> 500]
agendaCatch(e, tok) ==
    IF e \in {"AUTH_REQUIRED", "invalid_grant"}
        THEN [token |-> unlinkToken(tok), status |-> 401]
        ELSE [token |-> tok, status |-> 500]

\* The body sent with each status of GET /api/agenda.
agendaBody(status) ==
    CASE status = 401 -> "AUTH_REQUIRED"
      [] status = 200 -> "eventos"
      [] OTHER -> "Erro ao buscar agenda"

\* What the try block of GET /oauth2callback does once client.getToken(code)
\* resolved with the token bundle t: the token file afterwards.
CallbackForgetsToken(tok, t) == tok
callbackPersist(tok, t) == JSONstringify(t)

\* multer's diskStorage stores an uploaded file under its canonical name
\* while the request is parsed, before the handler's callback runs.
storeUpload(file, up) == IF up.present THEN up.file ELSE file

\* ------------------------------------------------------------- responses
Response(status, body) == [status |-> status, body |-> body, unhandled |-> FALSE]
Pending == Response(0, "")

\* ------------------------------------------------------------------ state
VARIABLES
    settingsFile,   \* dados/settings.json
    credFile,       \* dados/credentials.json
    tokenFile,      \* dados/token.json
    dbFile,         \* dados/pacientes.json
    inflight,       \* inflight[t]: GET /api/agenda requests awaiting the
                    \* provider's answer to a call made with token t
    callback,       \* "idle", or "awaiting": a GET /oauth2callback awaits
                    \* the provider's answer to client.getToken(code)
    op,             \* the handler step (or external edit) that ran last
    pre,            \* the files as that step found them
    resp,           \* the response it sent (Pending: none yet)
    req,            \* the request fields it read
    settingsRet,    \* what the getSettings call of that step returned
    settingsThrew,  \* whether that call raised
    authRet,        \* what carregarAuth returned in that step
    provider,       \* the provider's answer that step received
    window,         \* the window that step asked the provider for
    authLost,       \* a GET /api/agenda answered 401 and no /oauth2callback
                    \* has succeeded since
    lostPre         \* authLost as the last step found it

vars == <<settingsFile, credFile, tokenFile, dbFile, inflight, callback, op, pre,
          resp, req, settingsRet, settingsThrew, authRet, provider, window,
          authLost,
          lostPre>>

Files ==
    [settings |-> settingsFile, cred |-> credFile, token |-> tokenFile,
     db |-> dbFile]

\* The request fields of a step that reads none.
NoRequest ==
    [partial |-> JsonObject(NoKeys), senha |-> Undef, nome |-> "",
     telefone |-> "", informado |-> Undef, code |-> FALSE]

\* What a step that does not call getSettings, or carregarAuth and the
\* provider, leaves in the history.
NoSettingsCall ==
    /\ settingsRet' = JsonNull
    /\ settingsThrew' = FALSE
NoAnswer == [answer |-> "none", token |-> NoToken]
NoAuthCall ==
    /\ authRet' = AuthRequired
    /\ provider' = NoAnswer
    /\ window' = NoWindow

\* Every step records the files and the authLost flag it found.
Step(name) ==
    /\ op' = name
    /\ pre' = Files
    /\ lostPre' = authLost

\* Line 337 runs getSettings() when the module is loaded: on a new data
\* folder that writes the default settings.json; the other files are not
\* there yet.
Init ==
    /\ settingsFile = getSettings(AbsentFile(JsonNull)).file
    /\ credFile = AbsentFile("neither")
    /\ tokenFile = AbsentFile(NoToken)
    /\ dbFile = AbsentFile(DbNull)
    /\ inflight = [t \in Tokens |-> 0]
    /\ callback = "idle"
    /\ op = "load"
    /\ pre = [settings |-> AbsentFile(JsonNull), cred |-> AbsentFile("neither"),
              token |-> AbsentFile(NoToken), db |-> AbsentFile(DbNull)]
    /\ resp = Pending
    /\ req = NoRequest
    /\ settingsRet = JsonObject(defaultSettings)
    /\ settingsThrew = FALSE
    /\ authRet = AuthRequired
    /\ provider = NoAnswer
    /\ window = NoWindow
    /\ authLost = FALSE
    /\ lostPre = FALSE

\* ------------------------------------------------------ settings handlers
\* GET /api/settings
GetSettingsRoute ==
    /\ Step("getSettings")
    /\ req' = NoRequest
    /\ settingsRet' = getSettings(settingsFile).ret
    /\ settingsThrew' = getSettings(settingsFile).threw
    /\ settingsFile' = getSettings(settingsFile).file
    /\ resp' = Response(200, "settings")
    /\ NoAuthCall
    /\ UNCHANGED <<credFile, tokenFile, dbFile, inflight, callback, authLost>>

\* POST /api/settings with body b; settingsRet is the `current` that
\* saveSettings read.
PostSettingsRoute(b) ==
    /\ Step("postSettings")
    /\ req' = [NoRequest EXCEPT !.partial = b]
    /\ settingsRet' = getSettings(settingsFile).ret
    /\ settingsThrew' = getSettings(settingsFile).threw
    /\ settingsFile' = saveSettings(settingsFile, b)
    /\ resp' = Response(200, "success")
    /\ NoAuthCall
    /\ UNCHANGED <<credFile, tokenFile, dbFile, inflight, callback, authLost>>

\* Somebody edits, empties or deletes settings.json outside the server.
EditSettings(f) ==
    /\ f # settingsFile
    /\ Step("editSettings")
    /\ req' = NoRequest
    /\ settingsFile' = f
    /\ resp' = Pending
    /\ NoSettingsCall
    /\ NoAuthCall
    /\ UNCHANGED <<credFile, tokenFile, dbFile, inflight, callback, authLost>>

NextSettings ==
    \/ GetSettingsRoute
    \/ \E o \in SettingsObjects : PostSettingsRoute(JsonObject(o))
    \/ \E f \in SettingsContents : EditSettings(f)

SpecSettings == Init /\ [][NextSettings]_vars

\* ------------------------------------------------------- settings claims
HasAllKeys(j) == j.isObject /\ \A k \in SettingsKeys : j.obj[k] # Undef

\* C1: whenever settings.json is missing, blank or not parseable, getSettings
\* returns exactly {diasEscopo: 1, senhaAdmin: "admin", ocultarIgnorados:
\* true}, raises nothing, and settings.json then holds exactly that object.
C1_SelfHeals ==
    (op = "getSettings" /\ pre.settings.kind \in {"absent", "blank", "garbage"})
        => /\ ~settingsThrew
           /\ settingsRet.isObject
           /\ settingsRet.obj["diasEscopo"] = Num(1)
           /\ settingsRet.obj["senhaAdmin"] = Str("admin")
           /\ settingsRet.obj["ocultarIgnorados"] = Bool(TRUE)
           /\ settingsFile.kind = "json"
           /\ settingsFile.json = settingsRet

\* getSettings found an unparseable settings.json and rewrote it.
C1_Witness ==
    /\ op = "getSettings"
    /\ pre.settings.kind = "garbage"
    /\ settingsFile.kind = "json"

\* C2: saveSettings(partial) followed by getSettings() returns what
\* getSettings returned before the save, with exactly the keys of partial
\* overwritten by partial's values and every other key as it was.
C2_SaveThenGet ==
    op = "postSettings"
        => /\ ~getSettings(settingsFile).threw
           /\ getSettings(settingsFile).ret.isObject
           /\ \A k \in SettingsKeys :
                getSettings(settingsFile).ret.obj[k] =
                    IF req.partial.obj[k] # Undef
                        THEN req.partial.obj[k]
                        ELSE getSettings(pre.settings).ret.obj[k]

\* diasEscopo is overwritten while a non-default senhaAdmin is kept.
C2_Witness ==
    /\ op = "postSettings"
    /\ req.partial.obj["diasEscopo"] = Num(2)
    /\ req.partial.obj["senhaAdmin"] = Undef
    /\ pre.settings.kind = "json"
    /\ pre.settings.json.obj["senhaAdmin"] = Str("s3")
    /\ pre.settings.json.obj["diasEscopo"] = Num(1)

\* C3: every getSettings call that returns gives an object with the three
\* keys diasEscopo, senhaAdmin and ocultarIgnorados, and settings.json then
\* contains the three keys as well.
C3_AllKeysAfterRead ==
    (op = "getSettings" /\ ~settingsThrew)
        => /\ HasAllKeys(settingsRet)
           /\ settingsFile.kind = "json"
           /\ HasAllKeys(settingsFile.json)

\* ---------------------------------------------------------- auth handlers
InFlight == LET sum[n \in 0..NTokens] ==
                    IF n = 0 THEN 0 ELSE sum[n - 1] + inflight[n]
            IN sum[NTokens]

\* GET /api/agenda on the day today, up to its first suspension:
\* carregarAuth(), then the part of listarEventos before the provider call
\* (getSettings and the window).
\* It answers at once when carregarAuth throws or settings.json holds null
\* (settings.diasEscopo then throws a TypeError).
AgendaStart(today) ==
    LET a == carregarAuth(credFile, tokenFile)
        g == getSettings(settingsFile)
    IN /\ Step("agendaStart")
       /\ req' = NoRequest
       /\ authRet' = a
       /\ provider' = NoAnswer
       /\ UNCHANGED <<credFile, dbFile, callback>>
       /\ IF ~a.ok
            THEN /\ tokenFile' = agendaCatch(a.err, tokenFile).token
                 /\ resp' = Response(agendaCatch(a.err, tokenFile).status,
                                     agendaBody(agendaCatch(a.err, tokenFile).status))
                 /\ authLost' = TRUE
                 /\ window' = NoWindow
                 /\ NoSettingsCall
                 /\ UNCHANGED <<settingsFile, inflight>>
            ELSE /\ settingsFile' = g.file
                 /\ settingsRet' = g.ret
                 /\ settingsThrew' = g.threw
                 /\ IF ~g.ret.isObject
                      THEN /\ tokenFile' = agendaCatch("TypeError", tokenFile).token
                           /\ resp' = Response(agendaCatch("TypeError", tokenFile).status,
                                    agendaBody(agendaCatch("TypeError", tokenFile).status))
                           /\ window' = NoWindow
                           /\ UNCHANGED <<inflight, authLost>>
                      ELSE /\ InFlight < MaxAgenda
                           /\ inflight' = [inflight EXCEPT ![a.token] = @ + 1]
                           /\ resp' = Pending
                           /\ window' = listarEventosWindow(today, g.ret)
                           /\ UNCHANGED <<tokenFile, authLost>>

\* The provider answers the events.list call a request made with token t:
\* with the events, with an invalid_grant error, or with another error.
AgendaReply(t, answer) ==
    /\ inflight[t] > 0
    /\ Step("agendaReply")
    /\ req' = NoRequest
    /\ inflight' = [inflight EXCEPT ![t] = @ - 1]
    /\ authRet' = [ok |-> TRUE, token |-> t, err |-> ""]
    /\ provider' = [answer |-> answer, token |-> t]
    /\ window' = NoWindow
    /\ NoSettingsCall
    /\ UNCHANGED <<settingsFile, credFile, dbFile, callback>>
    /\ IF answer = "eventos"
        THEN /\ resp' = Response(200, agendaBody(200))
             /\ UNCHANGED <<tokenFile, authLost>>
        ELSE /\ tokenFile' = agendaCatch(answer, tokenFile).token
             /\ resp' = Response(agendaCatch(answer, tokenFile).status,
                                 agendaBody(agendaCatch(answer, tokenFile).status))
             /\ authLost' = (authLost \/ agendaCatch(answer, tokenFile).status = 401)

\* GET /oauth2callback up to its suspension: without a code, or when
\* getOAuthClient() throws, it answers at once with a plain-text error.
CallbackStart(code) ==
    /\ callback = "idle"
    /\ Step("callbackStart")
    /\ req' = [NoRequest EXCEPT !.code = code]
    /\ NoSettingsCall
    /\ NoAuthCall
    /\ UNCHANGED <<settingsFile, credFile, tokenFile, dbFile, inflight, authLost>>
    /\ IF ~code
        THEN /\ resp' = Response(200, "Erro: Sem codigo.")
             /\ callback' = "idle"
        ELSE IF ~getOAuthClient(credFile).ok
            THEN /\ resp' = Response(200, "Erro ao gerar token")
                 /\ callback' = "idle"
            ELSE /\ resp' = Pending
                 /\ callback' = "awaiting"

\* The provider answers client.getToken(code): with the token bundle t, or
\* (t = NoToken) by rejecting the code.
CallbackReply(t) ==
    /\ callback = "awaiting"
    /\ Step("callbackReply")
    /\ req' = [NoRequest EXCEPT !.code = TRUE]
    /\ callback' = "idle"
    /\ authRet' = AuthRequired
    /\ window' = NoWindow
    /\ NoSettingsCall
    /\ UNCHANGED <<settingsFile, credFile, dbFile, inflight>>
    /\ IF t # NoToken
        THEN /\ provider' = [answer |-> "tokens", token |-> t]
             /\ tokenFile' = callbackPersist(tokenFile, t)
             /\ resp' = Response(302, "/agenda")
             /\ authLost' = FALSE
        ELSE /\ provider' = [answer |-> "rejected", token |-> NoToken]
             /\ resp' = Response(200, "Erro ao gerar token")
             /\ UNCHANGED <<tokenFile, authLost>>

\* POST /api/delete-token
DeleteToken ==
    /\ Step("deleteToken")
    /\ req' = NoRequest
    /\ tokenFile' = unlinkToken(tokenFile)
    /\ resp' = Response(200, "Token apagado com sucesso.")
    /\ NoSettingsCall
    /\ NoAuthCall
    /\ UNCHANGED <<settingsFile, credFile, dbFile, inflight, callback, authLost>>

\* token.json is damaged outside the server: emptied or left unparseable.
CorruptToken(f) ==
    /\ f # tokenFile
    /\ Step("corruptToken")
    /\ req' = NoRequest
    /\ tokenFile' = f
    /\ resp' = Pending
    /\ NoSettingsCall
    /\ NoAuthCall
    /\ UNCHANGED <<settingsFile, credFile, dbFile, inflight, callback, authLost>>

\* ------------------------------------------------------------------ upload
NoUpload(j) == [present |-> FALSE, file |-> AbsentFile(j)]
Uploaded(f) == [present |-> TRUE, file |-> f]
CredUploads ==
    {NoUpload("neither")} \cup {Uploaded(f) : f \in CredContents \ {AbsentFile("neither")}}
\* The databases the model uploads: unreadable ones, null, an empty one and
\* one with a record, a value of an older shape and a name left out.
DbUploads ==
    {NoUpload(DbNull), Uploaded(BlankFile(DbNull)), Uploaded(GarbageFile(DbNull)),
     Uploaded(JSONstringify(DbNull)), Uploaded(JSONstringify(DbObject(NoNames))),
     Uploaded(JSONstringify(DbObject(
        [n \in Names |-> IF n = "Maria"
                            THEN ObjectEntry(Str("5521988887777"), IsoString(1))
                            ELSE OtherEntry])))}
Senhas == {Undef, Str("admin"), Str("s3"), Str("errada")}

\* The callback of POST /api/upload, which runs after multer stored the
\* files: the status for the senha field against getSettings().senhaAdmin
\* (500: settings.json holds null and settings.senhaAdmin throws).
uploadStatus(senha, settings) ==
    IF ~settings.isObject THEN 500
    ELSE IF senha # settings.obj["senhaAdmin"] THEN 403
    ELSE 200

\* POST /api/upload with the fields senha, credenciais and banco.
Upload(senha, credenciais, banco) ==
    /\ credenciais.present \/ banco.present
    /\ Step("upload")
    /\ req' = [NoRequest EXCEPT !.senha = senha]
    /\ credFile' = storeUpload(credFile, credenciais)
    /\ dbFile' = storeUpload(dbFile, banco)
    /\ settingsFile' = getSettings(settingsFile).file
    /\ settingsRet' = getSettings(settingsFile).ret
    /\ settingsThrew' = getSettings(settingsFile).threw
    /\ resp' = [Response(uploadStatus(senha, getSettings(settingsFile).ret), "upload")
                    EXCEPT !.unhandled = ~getSettings(settingsFile).ret.isObject]
    /\ NoAuthCall
    /\ UNCHANGED <<tokenFile, inflight, callback, authLost>>

\* ------------------------------------------------------- patient handlers
\* POST /api/salvar
SalvarRoute(nome, telefone) ==
    /\ Step("salvar")
    /\ req' = [NoRequest EXCEPT !.nome = nome, !.telefone = telefone]
    /\ dbFile' = salvar(dbFile, nome, telefone).file
    /\ resp' = Response(salvar(dbFile, nome, telefone).status,
                        IF salvar(dbFile, nome, telefone).status = 200
                            THEN "success:true" ELSE "success:false")
    /\ NoSettingsCall
    /\ NoAuthCall
    /\ UNCHANGED <<settingsFile, credFile, tokenFile, inflight, callback, authLost>>

\* POST /api/marcar-informado, handled at the instant now
MarcarInformadoRoute(nome, informado, now) ==
    /\ Step("marcarInformado")
    /\ req' = [NoRequest EXCEPT !.nome = nome, !.informado = informado]
    /\ dbFile' = marcarInformado(dbFile, nome, informado, now).file
    /\ resp' = Response(marcarInformado(dbFile, nome, informado, now).status,
                        IF marcarInformado(dbFile, nome, informado, now).status = 200
                            THEN "success:true" ELSE "success:false")
    /\ NoSettingsCall
    /\ NoAuthCall
    /\ UNCHANGED <<settingsFile, credFile, tokenFile, inflight, callback, authLost>>

\* GET /api/pacientes
PacientesRoute ==
    /\ Step("pacientes")
    /\ req' = NoRequest
    /\ resp' = [Response(IF pacientes(dbFile).threw THEN 500 ELSE 200, "pacientes")
                    EXCEPT !.unhandled = pacientes(dbFile).threw]
    /\ NoSettingsCall
    /\ NoAuthCall
    /\ UNCHANGED <<settingsFile, credFile, tokenFile, dbFile, inflight, callback,
                   authLost>>

\* ---------------------------------------------------------- specifications
\* The authorization flow: the agenda and callback handlers interleaved with
\* token deletion, token damage and uploads of credentials.json.
NextAuth ==
    \/ \E today \in 1..MaxClock : AgendaStart(today)
    \/ \E t \in Tokens, answer \in {"eventos", "invalid_grant", "error"} :
            AgendaReply(t, answer)
    \/ \E code \in BOOLEAN : CallbackStart(code)
    \/ \E t \in Tokens \cup {NoToken} : CallbackReply(t)
    \/ DeleteToken
    \/ \E f \in {BlankFile(NoToken), GarbageFile(NoToken)} : CorruptToken(f)
    \/ \E c \in CredUploads : Upload(Str("admin"), c, NoUpload(DbNull))

SpecAuth == Init /\ [][NextAuth]_vars

\* The upload gate: uploads under any senha, and changes of senhaAdmin.
SenhaChanges ==
    {o \in SettingsObjects : o["diasEscopo"] = Undef /\ o["ocultarIgnorados"] = Undef}
NextUpload ==
    \/ \E senha \in Senhas, b \in DbUploads,
            c \in {NoUpload("neither"), Uploaded(GarbageFile("neither")),
                   Uploaded(JSONstringify("web"))} : Upload(senha, c, b)
    \/ \E o \in SenhaChanges : PostSettingsRoute(JsonObject(o))
    \/ \E f \in {AbsentFile(JsonNull), JSONstringify(JsonNull),
                  JSONstringify(JsonObject(NoKeys))} : EditSettings(f)

SpecUpload == Init /\ [][NextUpload]_vars

\* The patient store: salvar, marcar-informado and pacientes, on stores that
\* uploads replace.
NextPatients ==
    \/ \E nome \in Names, telefone \in RawNumbers : SalvarRoute(nome, telefone)
    \/ \E nome \in Names, informado \in {Bool(TRUE), Bool(FALSE), Undef},
            now \in 1..MaxClock : MarcarInformadoRoute(nome, informado, now)
    \/ PacientesRoute
    \/ \E b \in DbUploads : Upload(Str("admin"), NoUpload("neither"), b)

SpecPatients == Init /\ [][NextPatients]_vars

\* The look-ahead window: agenda requests under every diasEscopo that POST
\* /api/settings or an edit of settings.json leaves in the store.
DiasChanges ==
    {o \in SettingsObjects : o["senhaAdmin"] = Undef /\ o["ocultarIgnorados"] = Undef}
NextWindow ==
    \/ \E today \in 1..MaxClock : AgendaStart(today)
    \/ \E t \in Tokens, answer \in {"eventos", "error"} : AgendaReply(t, answer)
    \/ CallbackStart(TRUE)
    \/ \E t \in Tokens : CallbackReply(t)
    \/ Upload(Str("admin"), Uploaded(JSONstringify("web")), NoUpload(DbNull))
    \/ \E o \in DiasChanges : PostSettingsRoute(JsonObject(o))
    \/ \E f \in {AbsentFile(JsonNull), JSONstringify(JsonNull),
                  JSONstringify(JsonObject(NoKeys))} : EditSettings(f)

SpecWindow == Init /\ [][NextWindow]_vars

\* ----------------------------------------------------------- auth claims
\* credentials.json yields a client: it parses and has a "web" or an
\* "installed" key.
Usable(cred) == cred.kind = "json" /\ cred.json \in {"web", "installed"}

C5_Unauthorized ==
    /\ (op = "agendaStart" /\ pre.token.kind # "json") => resp.status = 401
    /\ (op = "agendaReply" /\ provider.answer = "invalid_grant")
            => resp.status = 401
    /\ (op \in {"agendaStart", "agendaReply"} /\ resp.status = 401)
            => /\ resp.body = "AUTH_REQUIRED"
               /\ ~resp.unhandled
               /\ tokenFile.kind = "absent"
    /\ (op = "agendaStart" /\ lostPre)
            => (resp.status = 401 /\ ~authRet.ok /\ tokenFile.kind = "absent")

\* An agenda request is refused after an earlier one lost the authorization
\* to an invalid_grant or a missing token, with credentials.json in order.
C5_Witness ==
    /\ op = "agendaStart"
    /\ lostPre
    /\ Usable(credFile)
    /\ resp.status = 401

\* C6: when credentials.json is absent, unparseable or has neither a "web"
\* nor an "installed" key, GET /api/agenda answers 500, never 401, whether
\* or not a token file exists, and leaves token.json as it was.
C6_CredentialProblemsAre500 ==
    (op = "agendaStart" /\ ~Usable(pre.cred))
        => (resp.status = 500 /\ tokenFile = pre.token)

\* C7 as stated: /oauth2callback writes token.json if and only if a code is
\* supplied and the exchange succeeds; on success the bundle is persisted,
\* the answer is a redirect and the next carregarAuth returns a client
\* carrying that token; otherwise the answer is a plain-text error and
\* token.json is as it was.
C7_AsStated ==
    /\ (op = "callbackReply" /\ provider.answer = "tokens")
            => /\ tokenFile = JSONstringify(provider.token)
               /\ resp.status = 302
               /\ carregarAuth(credFile, tokenFile).ok
               /\ carregarAuth(credFile, tokenFile).token = provider.token
    /\ (op = "callbackReply" /\ provider.answer = "rejected")
            => (tokenFile = pre.token /\ resp.body = "Erro ao gerar token")
    /\ op = "callbackStart"
            => /\ tokenFile = pre.token
               /\ ~req.code => resp.body = "Erro: Sem codigo."
               /\ (req.code /\ ~Usable(pre.cred)) => resp.body = "Erro ao gerar token"

\* C7, amended: as stated, except that the next carregarAuth returns a
\* client carrying the persisted token provided credentials.json still
\* yields a client then (an upload may replace it while the exchange is
\* pending).
C7_CallbackWrites ==
    /\ (op = "callbackReply" /\ provider.answer = "tokens")
            => /\ tokenFile.kind = "json"
               /\ tokenFile.json = provider.token
               /\ resp.status = 302
               /\ resp.body = "/agenda"
               /\ Usable(credFile)
                    => /\ carregarAuth(credFile, tokenFile).ok
                       /\ carregarAuth(credFile, tokenFile).token = provider.token
    /\ (op = "callbackReply" /\ provider.answer = "rejected")
            => /\ tokenFile = pre.token
               /\ resp.status = 200
               /\ resp.body = "Erro ao gerar token"
    /\ op = "callbackStart"
            => /\ tokenFile = pre.token
               /\ ~req.code => (resp.status = 200 /\ resp.body = "Erro: Sem codigo.")
               /\ (req.code /\ ~Usable(pre.cred))
                    => (resp.status = 200 /\ resp.body = "Erro ao gerar token")
               /\ (req.code /\ Usable(pre.cred)) => resp = Pending

\* The exchange succeeds and replaces an older token.
C7_Witness ==
    /\ op = "callbackReply"
    /\ provider = [answer |-> "tokens", token |-> 2]
    /\ pre.token = JSONstringify(1)
    /\ tokenFile = JSONstringify(2)
    /\ Usable(credFile)

\* --------------------------------------------------------- upload claims
\* C8: an upload whose senha differs from the current senhaAdmin answers 403
\* and leaves credentials.json and pacientes.json as they were.
C8_UploadGate ==
    (op = "upload" /\ settingsRet.isObject
        /\ req.senha # settingsRet.obj["senhaAdmin"])
        => /\ resp.status = 403
           /\ credFile = pre.cred
           /\ dbFile = pre.db

\* -------------------------------------------------------- patient claims
\* The raw numbers the normalizer rejects: parsing throws, or the parsed
\* number is not valid.
Rejected(raw) == phoneUtil(raw).throws \/ ~phoneUtil(raw).valid

\* The digit string of a raw number the normalizer accepts.
Digits(raw) ==
    IF raw \in {"11999998888", "+55 11 99999-8888"}
        THEN "5511999998888"
        ELSE "5521988887777"

\* C9: POST /api/salvar with a phone the normalizer rejects answers 400 with
\* success:false and leaves pacientes.json as it was (absent if it was
\* absent).
C9_InvalidPhone ==
    (op = "salvar" /\ Rejected(req.telefone))
        => /\ resp.status = 400
           /\ resp.body = "success:false"
           /\ dbFile = pre.db

\* The number "123" is refused on a data folder without pacientes.json.
C9_Witness ==
    /\ op = "salvar"
    /\ req.telefone = "123"
    /\ pre.db.kind = "absent"
    /\ dbFile.kind = "absent"
    /\ resp.status = 400

\* What C10 says of the store after a salvar of req.nome: GET /api/pacientes
\* yields a record for the name with the digit string as telefone and the
\* informadoEm it had before (none if it had none), and the other names as
\* they were.
SalvarEffect ==
    /\ resp.status = 200
    /\ ~pacientes(dbFile).threw
    /\ pacientes(dbFile).body.isObject
    /\ pacientes(dbFile).body.obj[req.nome].shape = "object"
    /\ pacientes(dbFile).body.obj[req.nome].telefone = Str(Digits(req.telefone))
    /\ pacientes(dbFile).body.obj[req.nome].informadoEm =
            pacientes(pre.db).body.obj[req.nome].informadoEm
    /\ \A m \in Names \ {req.nome} :
            pacientes(dbFile).body.obj[m] = pacientes(pre.db).body.obj[m]

\* C10 as stated: for every store.
C10_AsStated ==
    (op = "salvar" /\ ~Rejected(req.telefone)) => SalvarEffect

\* C10, amended: when pacientes.json is absent or holds a JSON object; when
\* it is unreadable or holds null the request answers 500 and the file is
\* left as it was.
Readable(db) == db.kind = "absent" \/ (db.kind = "json" /\ db.json.isObject)
C10_SalvarThenPacientes ==
    (op = "salvar" /\ ~Rejected(req.telefone))
        => IF Readable(pre.db)
              THEN SalvarEffect
              ELSE resp.status = 500 /\ dbFile = pre.db

\* Maria's phone is replaced; her informadoEm and Ana's old-shaped value stay.
C10_Witness ==
    /\ op = "salvar"
    /\ req.nome = "Maria"
    /\ req.telefone = "+55 11 99999-8888"
    /\ pre.db.kind = "json"
    /\ pre.db.json.obj["Maria"] = ObjectEntry(Str("5521988887777"), IsoString(1))
    /\ pre.db.json.obj["Ana"] = OtherEntry
    /\ dbFile.json.obj["Maria"] = ObjectEntry(Str("5511999998888"), IsoString(1))

\* What C11 says of the store after a marcar-informado of req.nome: the name
\* has a record with the telefone it had before (none if it had none); after
\* informado: true its informadoEm is a timestamp, not null; after informado:
\* false it is null, and a second informado: false leaves the store as the
\* first left it.
MarcarEffect ==
    /\ resp.status = 200
    /\ ~pacientes(dbFile).threw
    /\ pacientes(dbFile).body.isObject
    /\ pacientes(dbFile).body.obj[req.nome].shape = "object"
    /\ pacientes(dbFile).body.obj[req.nome].telefone =
            pacientes(pre.db).body.obj[req.nome].telefone
    /\ req.informado = Bool(TRUE)
            => /\ pacientes(dbFile).body.obj[req.nome].informadoEm.t = "str"
               /\ pacientes(dbFile).body.obj[req.nome].informadoEm.n \in 1..MaxClock
    /\ req.informado = Bool(FALSE)
            => /\ pacientes(dbFile).body.obj[req.nome].informadoEm = Null
               /\ \A now \in 1..MaxClock :
                    marcarInformado(dbFile, req.nome, Bool(FALSE), now).file = dbFile

\* C11 as stated: for every prior store state.
C11_AsStated ==
    (op = "marcarInformado" /\ req.informado \in {Bool(TRUE), Bool(FALSE)})
        => MarcarEffect

\* C11, amended: when pacientes.json is absent or holds a JSON object; when
\* it is unreadable or holds null the request answers 500 and the file is
\* left as it was.
C11_MarcarInformado ==
    (op = "marcarInformado" /\ req.informado \in {Bool(TRUE), Bool(FALSE)})
        => IF Readable(pre.db)
              THEN MarcarEffect
              ELSE resp.status = 500 /\ dbFile = pre.db

\* Maria's timestamp is nulled out and her phone stays.
C11_Witness ==
    /\ op = "marcarInformado"
    /\ req.nome = "Maria"
    /\ req.informado = Bool(FALSE)
    /\ pre.db.kind = "json"
    /\ pre.db.json.obj["Maria"] = ObjectEntry(Str("5521988887777"), IsoString(1))
    /\ dbFile.json.obj["Maria"] = ObjectEntry(Str("5521988887777"), Null)

\* --------------------------------------------------------- window claims
\* C12: for every diasEscopo the settings store holds, listarEventos asks for
\* the window from local midnight of tomorrow to 23:59:59.999 of the day
\* tomorrow + diasEscopo - 1, which covers exactly diasEscopo whole days and
\* ends later than it starts; a missing diasEscopo counts as 1.
C12_Window ==
    (op = "agendaStart" /\ resp = Pending)
        => LET dias == IF settingsRet.obj["diasEscopo"] = Undef
                          THEN 1
                          ELSE settingsRet.obj["diasEscopo"].n
               tomorrow == window.today + 1
           IN /\ window.inicio = tomorrow * MsPerDay
              /\ window.fim = (tomorrow + dias - 1) * MsPerDay + EndOfDay
              /\ window.fim + 1 - window.inicio = dias * MsPerDay
              /\ window.fim > window.inicio

\* ---------------------------------------------------- concurrency claims
\* C13: under any interleaving of a GET /api/agenda with a GET
\* /oauth2callback, the agenda request deletes only the token the provider
\* rejected: when its provider call returns and token.json holds another
\* token (one that /oauth2callback persisted during the call), the request
\* leaves token.json as it is.
C13_DeletesOnlyRejectedToken ==
    (op = "agendaReply" /\ pre.token.kind = "json"
        /\ pre.token.json # provider.token)
        => tokenFile = pre.token
====
